---------------------------- MODULE Spec2Model ----------------------------
(***************************************************************************)
(* A model of backend/main.py, the SME Financial Health service.           *)
(*                                                                         *)
(* The service is a set of stateless request handlers.  The state of the   *)
(* model is what a client observes: the file it uploaded, the response to  *)
(* every stage it called, and (for the handlers called on their own) the   *)
(* last two request/response exchanges.                                    *)
(*                                                                         *)
(* Numbers.  The handlers compute on IEEE doubles.  The model computes on  *)
(* integers, exactly:                                                      *)
(*   - a numeric cell of an uploaded table is an integer count of 1/256    *)
(*     currency units.  These values, and the sums of a few of them, are   *)
(*     exactly representable doubles, so pandas' sums and Python's         *)
(*     round(x, 2) (correctly rounded, ties to even) are computed here     *)
(*     without error;                                                      *)
(*   - a monetary value in a JSON payload is an integer: a count of cents  *)
(*     when it is a value upload_file returned (rounded to 2 decimals), a  *)
(*     count of whole units when a client made it up.  The handlers use    *)
(*     only the signs and the ratio of these values, and on such values    *)
(*     the double division and its comparison with 0.6 and 0.8 agree with  *)
(*     the rationals.                                                      *)
(* Python's -0.0 (the rounding of a tiny negative number) is the integer   *)
(* 0: both compare equal to 0 and neither is < 0.                          *)
(***************************************************************************)
EXTENDS Integers, Sequences, FiniteSets, TLC

VARIABLES
    file,         \* the upload being processed: filename, header line, data rows
    handled,      \* what upload_file did inside: the branch taken, the amount column, df["amount"]
    uploadOut,    \* response of POST /upload
    insightsOut,  \* response of POST /ai-insights, called with uploadOut
    scoreOut,     \* response of POST /health-score, called with uploadOut
    creditOut,    \* response of POST /creditworthiness, called with scoreOut and uploadOut
    productOut,   \* response of POST /product-recommendation, called with creditOut and uploadOut
    call,         \* the latest exchange of a handler called on its own
    prior         \* the exchange before it

vars == <<file, handled, uploadOut, insightsOut, scoreOut, creditOut, productOut, call, prior>>

pipelineVars == <<file, handled, uploadOut, insightsOut, scoreOut, creditOut, productOut>>

apiVars == <<call, prior>>

\* No response yet.
Nil == [none |-> TRUE]

-----------------------------------------------------------------------------
(* Text.  A string the code inspects character by character (a column     *)
(* name, a file name) is a sequence of one-character strings.             *)

UpperLetters == <<"A","B","C","D","E","F","G","H","I","J","K","L","M",
                  "N","O","P","Q","R","S","T","U","V","W","X","Y","Z">>

LowerLetters == <<"a","b","c","d","e","f","g","h","i","j","k","l","m",
                  "n","o","p","q","r","s","t","u","v","w","x","y","z">>

\* str.lower() on one character.
LowerChar(c) ==
    IF \E i \in 1..26 : UpperLetters[i] = c
    THEN LowerLetters[CHOOSE i \in 1..26 : UpperLetters[i] = c]
    ELSE c

\* str.lower()
Lower(s) == [i \in 1..Len(s) |-> LowerChar(s[i])]

IsSpace(c) == c \in {" ", "\t", "\n", "\r"}

\* str.strip(): drop the leading and the trailing whitespace, keep the inner.
Strip(s) ==
    LET keep == {i \in 1..Len(s) : ~IsSpace(s[i])}
    IN  IF keep = {} THEN <<>>
        ELSE LET lo == CHOOSE i \in keep : \A j \in keep : i <= j
                 hi == CHOOSE i \in keep : \A j \in keep : j <= i
             IN  SubSeq(s, lo, hi)

\* str.endswith(suffix)
EndsWith(s, suffix) ==
    /\ Len(s) >= Len(suffix)
    /\ SubSeq(s, Len(s) - Len(suffix) + 1, Len(s)) = suffix

\* The column names the handler looks for.
c_open == <<"o","p","e","n">>
c_high == <<"h","i","g","h">>
c_low == <<"l","o","w">>
c_close == <<"c","l","o","s","e">>
c_debit == <<"d","e","b","i","t">>
c_credit == <<"c","r","e","d","i","t">>
c_amount == <<"a","m","o","u","n","t">>
c_value == <<"v","a","l","u","e">>
c_transaction_amount == <<"t","r","a","n","s","a","c","t","i","o","n","_","a","m","o","u","n","t">>
c_volume == <<"v","o","l","u","m","e">>

dot_csv == <<".","c","s","v">>

market_columns == {c_open, c_high, c_low, c_close}

possible_amount_cols == <<c_amount, c_value, c_transaction_amount>>

-----------------------------------------------------------------------------
(* Numbers.                                                                *)

Abs(x) == IF x < 0 THEN -x ELSE x

\* Floor of n/d for d > 0.
FloorDiv(n, d) == n \div d

\* The integer nearest to n/d (d > 0), ties to the even one.
RoundHalfEven(n, d) ==
    LET q == FloorDiv(n, d)
        r == n - q * d
    IN  IF 2 * r < d THEN q
        ELSE IF 2 * r > d THEN q + 1
        ELSE IF q % 2 = 0 THEN q ELSE q + 1

\* round(float(x), 2) for x a count of 1/256 units: the result in cents.
Round2(x) == RoundHalfEven(x * 100, 256)

RECURSIVE SumSeq(_)
\* Series.sum(): 0 for the empty series.
SumSeq(s) == IF s = <<>> THEN 0 ELSE Head(s) + SumSeq(Tail(s))


-----------------------------------------------------------------------------
(* The uploaded table, as pd.read_csv hands it over: the header line and   *)
(* the data rows, each row one cell per column.  A cell holds a number, a  *)
(* text that is no number, or nothing.                                     *)

Num(n) == [kind |-> "num", val |-> n]

Text == [kind |-> "text", val |-> 0]

Empty == [kind |-> "empty", val |-> 0]

\* A float that is NaN, or the number v.
NaN == [nan |-> TRUE, v |-> 0]

Float(n) == [nan |-> FALSE, v |-> n]

Range(s) == {s[i] : i \in DOMAIN s}

\* pd.to_numeric(cell, errors="coerce"): what does not parse becomes NaN.
to_numeric(cell) == IF cell.kind = "num" THEN Float(cell.val) ELSE NaN

\* Series.fillna(0)
fillna0(x) == IF x.nan THEN 0 ELSE x.v

\* df.columns = [c.lower().strip() for c in df.columns]
NormalizeColumns(header) == [i \in DOMAIN header |-> Strip(Lower(header[i]))]

\* The positions of the columns labelled name.  df[name] is a Series when
\* there is one, and a DataFrame when several columns share the label.
Positions(columns, name) == {i \in DOMAIN columns : columns[i] = name}

IsFrame(columns, name) == Cardinality(Positions(columns, name)) > 1

\* pd.to_numeric(df[name], errors="coerce").fillna(0), df[name] a Series.
NumericColumn(columns, rows, name) ==
    LET p == CHOOSE i \in Positions(columns, name) : TRUE
    IN  [r \in DOMAIN rows |-> fillna0(to_numeric(rows[r][p]))]

\* Classify with the ledger test moved before the market-data test.
ClassifyLedgerFirst(columns) ==
    IF c_debit \in Range(columns) /\ c_credit \in Range(columns)
    THEN [kind |-> "ledger", amount_col |-> <<>>]
    ELSE IF market_columns \subseteq Range(columns)
    THEN [kind |-> "market_data", amount_col |-> <<>>]
    ELSE LET found == SelectSeq(possible_amount_cols, LAMBDA c : c \in Range(columns))
         IN  IF found = <<>>
             THEN [kind |-> "unsupported", amount_col |-> <<>>]
             ELSE [kind |-> "single_amount", amount_col |-> Head(found)]

\* The branch upload_file takes on the normalised column names, and the
\* amount column of the single-amount branch.
Classify(columns) ==
    IF market_columns \subseteq Range(columns)
    THEN [kind |-> "market_data", amount_col |-> <<>>]
    ELSE IF c_debit \in Range(columns) /\ c_credit \in Range(columns)
    THEN [kind |-> "ledger", amount_col |-> <<>>]
    ELSE LET found == SelectSeq(possible_amount_cols, LAMBDA c : c \in Range(columns))
         IN  IF found = <<>>
             THEN [kind |-> "unsupported", amount_col |-> <<>>]
             ELSE [kind |-> "single_amount", amount_col |-> Head(found)]

\* Whether computing df["amount"] and the totals raises.  Where several
\* columns carry a label, df[label] is a DataFrame: pd.to_numeric raises
\* TypeError on it, and in the ledger branch a repeated "amount" label
\* leaves no scalar totals to compare.
AmountRaises(columns, cls) ==
    IF cls.kind = "ledger"
    THEN \/ IsFrame(columns, c_debit)
         \/ IsFrame(columns, c_credit)
         \/ IsFrame(columns, c_amount)
    ELSE IsFrame(columns, cls.amount_col)

\* df["amount"], one signed number per row.
Amount(columns, rows, cls) ==
    IF cls.kind = "ledger"
    THEN LET debit == NumericColumn(columns, rows, c_debit)
             credit == NumericColumn(columns, rows, c_credit)
         IN  [r \in DOMAIN rows |-> credit[r] - debit[r]]
    ELSE NumericColumn(columns, rows, cls.amount_col)

\* df[df["amount"] > 0]["amount"].sum()
TotalRevenue(amount) == SumSeq(SelectSeq(amount, LAMBDA a : a > 0))

\* abs(df[df["amount"] < 0]["amount"].sum())
TotalExpense(amount) == Abs(SumSeq(SelectSeq(amount, LAMBDA a : a < 0)))

\* x > y * 0.8 on doubles.  Exact here: for the values of the model the
\* product and the comparison agree with the rationals.
ExceedsEightTenths(x, y) == 10 * x > 8 * y

\* The risks list, in the order the code appends.
RiskFlags(total_revenue, total_expense, net_cashflow) ==
    (IF ExceedsEightTenths(total_expense, total_revenue)
     THEN <<"High expense ratio">> ELSE <<>>)
    \o (IF net_cashflow < 0 THEN <<"Negative cash flow">> ELSE <<>>)

\* The dict upload_file returns for a table of financial data.
Summary(amount) ==
    LET total_revenue == TotalRevenue(amount)
        total_expense == TotalExpense(amount)
        net_cashflow == total_revenue - total_expense
    IN  [dataset_type |-> "sme_financial",
         total_revenue |-> Round2(total_revenue),
         total_expense |-> Round2(total_expense),
         net_cashflow |-> Round2(net_cashflow),
         risk_flags |-> RiskFlags(total_revenue, total_expense, net_cashflow)]

\* Nothing was computed inside the handler.
NotHandled == [kind |-> "none", amount_col |-> <<>>, amount |-> <<>>]

\* POST /upload: the response, and under `did` what happened inside.
upload_file(f) ==
    IF ~EndsWith(f.filename, dot_csv)
    THEN [response |-> [error |-> "Only CSV files are supported"], did |-> NotHandled]
    ELSE
    LET columns == NormalizeColumns(f.header)
        cls == Classify(columns)
        did == [kind |-> cls.kind, amount_col |-> cls.amount_col, amount |-> <<>>]
    IN  IF cls.kind = "market_data"
        THEN [response |-> [dataset_type |-> "market_data",
                            detected_columns |-> columns],
              did |-> did]
        ELSE IF cls.kind = "unsupported"
        THEN [response |-> [dataset_type |-> "unsupported",
                            available_columns |-> columns],
              did |-> did]
        ELSE IF AmountRaises(columns, cls)
        THEN [response |-> [raised |-> "exception"], did |-> did]
        ELSE LET amount == Amount(columns, f.rows, cls)
             IN  [response |-> Summary(amount),
                  did |-> [did EXCEPT !.amount = amount]]

-----------------------------------------------------------------------------
(* The handlers that take a JSON payload.  Monetary fields are integers;   *)
(* only their signs and their ratio are used.                              *)

\* POST /ai-insights.  " ".join(insights) is kept as the list of the
\* sentences joined, in order.
ai_insights(data) ==
    LET cash == IF data.net_cashflow > 0
                THEN <<"Your business is generating positive cash flow, which is a good sign.">>
                ELSE <<"Your business is facing negative cash flow. Immediate attention is required.">>
        cost == IF "High expense ratio" \in Range(data.risk_flags)
                THEN <<"Expenses are consuming a large portion of revenue. Cost optimization is recommended.">>
                ELSE <<>>
    IN  [plain_english_summary |-> cash \o cost,
         actionable_recommendations |->
            <<"Review recurring expenses and identify non-essential costs.",
              "Negotiate better payment terms with suppliers.",
              "Improve customer payment collection timelines.">>]

\* expense_ratio, a fraction num/den with den > 0: total_expense /
\* total_revenue when total_revenue > 0, and 0 otherwise.
ExpenseRatio(data) ==
    IF data.total_revenue > 0
    THEN [num |-> data.total_expense, den |-> data.total_revenue]
    ELSE [num |-> 0, den |-> 1]

\* ratio > tenths/10
RatioAbove(ratio, tenths) == 10 * ratio.num > tenths * ratio.den

\* CashflowDeduction with the comparison turned round.
CashflowDeductionFlipped(data) == IF data.net_cashflow > 0 THEN 40 ELSE 0

\* if data.net_cashflow < 0: score -= 40
CashflowDeduction(data) == IF data.net_cashflow < 0 THEN 40 ELSE 0

\* BandDeduction with >= in place of >.
BandDeductionInclusive(data) ==
    LET ratio == ExpenseRatio(data)
    IN  IF 10 * ratio.num >= 8 * ratio.den THEN 30
        ELSE IF 10 * ratio.num >= 6 * ratio.den THEN 15
        ELSE 0

\* if expense_ratio > 0.8: score -= 30 / elif expense_ratio > 0.6: score -= 15
BandDeduction(data) ==
    IF RatioAbove(ExpenseRatio(data), 8) THEN 30
    ELSE IF RatioAbove(ExpenseRatio(data), 6) THEN 15
    ELSE 0

\* if "Negative cash flow" in data.risk_flags: score -= 20
FlagDeduction(data) ==
    IF "Negative cash flow" \in Range(data.risk_flags) THEN 20 ELSE 0

\* if score >= 80 ... elif score >= 50 ... else
Label(score) ==
    IF score >= 80 THEN "Healthy"
    ELSE IF score >= 50 THEN "Moderate"
    ELSE "At Risk"

\* POST /health-score
health_score(data) ==
    LET deducted == 100 - CashflowDeduction(data) - BandDeduction(data) - FlagDeduction(data)
        score == IF deducted < 0 THEN 0 ELSE deducted
    IN  [financial_health_score |-> score, status |-> Label(score)]

\* creditworthiness with the test for Caution made first.
creditworthinessCautionFirst(data) ==
    IF data.financial_health_score >= 50
    THEN [credit_status |-> "Caution",
          explanation |-> "Moderate financial health. Credit possible with conditions."]
    ELSE IF data.financial_health_score >= 75 /\ data.net_cashflow > 0
    THEN [credit_status |-> "Credit Ready",
          explanation |-> "Strong financial health and positive cash flow."]
    ELSE [credit_status |-> "High Risk",
          explanation |-> "Weak financial indicators or negative cash flow."]

\* creditworthiness with net_cashflow >= 0 in place of net_cashflow > 0.
creditworthinessNonNegative(data) ==
    IF data.financial_health_score >= 75 /\ data.net_cashflow >= 0
    THEN [credit_status |-> "Credit Ready",
          explanation |-> "Strong financial health and positive cash flow."]
    ELSE IF data.financial_health_score >= 50
    THEN [credit_status |-> "Caution",
          explanation |-> "Moderate financial health. Credit possible with conditions."]
    ELSE [credit_status |-> "High Risk",
          explanation |-> "Weak financial indicators or negative cash flow."]

\* POST /creditworthiness
creditworthiness(data) ==
    IF data.financial_health_score >= 75 /\ data.net_cashflow > 0
    THEN [credit_status |-> "Credit Ready",
          explanation |-> "Strong financial health and positive cash flow."]
    ELSE IF data.financial_health_score >= 50
    THEN [credit_status |-> "Caution",
          explanation |-> "Moderate financial health. Credit possible with conditions."]
    ELSE [credit_status |-> "High Risk",
          explanation |-> "Weak financial indicators or negative cash flow."]

\* product_recommendation with expense_ratio put to use: a Credit Ready
\* business whose expenses exceed 0.8 of its revenue gets Invoice Discounting.
product_recommendationByRatio(data) ==
    LET expense_ratio == ExpenseRatio(data)
        recommendations ==
            IF data.credit_status = "Credit Ready"
            THEN IF data.net_cashflow > 0 /\ ~RatioAbove(expense_ratio, 8)
                 THEN <<"Working Capital Loan", "Business Credit Card">>
                 ELSE <<"Invoice Discounting">>
            ELSE IF data.credit_status = "Caution"
            THEN <<"Overdraft Facility">>
            ELSE <<"Not eligible for credit currently. Focus on improving cash flow and reducing expenses.">>
    IN  [recommended_products |-> recommendations,
         note |-> "Recommendations are indicative and based on financial indicators."]

\* POST /product-recommendation.  expense_ratio is computed and not used.
product_recommendation(data) ==
    LET expense_ratio == ExpenseRatio(data)
        recommendations ==
            IF data.credit_status = "Credit Ready"
            THEN IF data.net_cashflow > 0
                 THEN <<"Working Capital Loan", "Business Credit Card">>
                 ELSE <<"Invoice Discounting">>
            ELSE IF data.credit_status = "Caution"
            THEN <<"Overdraft Facility">>
            ELSE <<"Not eligible for credit currently. Focus on improving cash flow and reducing expenses.">>
    IN  [recommended_products |-> recommendations,
         note |-> "Recommendations are indicative and based on financial indicators."]

-----------------------------------------------------------------------------
(* The uploads of the model.                                               *)

MaxRows == 2

\* str.upper() on one character, to write header lines in other cases.
UpperChar(c) ==
    IF \E i \in 1..26 : LowerLetters[i] = c
    THEN UpperLetters[CHOOSE i \in 1..26 : LowerLetters[i] = c]
    ELSE c

\* One column name as a file may spell it: "open", "Open " or " OPEN".
Spelled(name, style) ==
    IF style = "plain" THEN name
    ELSE IF style = "title" THEN <<UpperChar(Head(name))>> \o Tail(name) \o <<" ">>
    ELSE <<" ">> \o [i \in 1..Len(name) |-> UpperChar(name[i])]

Styles == {"plain", "title", "upper"}

KnownNames == <<c_open, c_high, c_low, c_close, c_debit, c_credit,
                c_amount, c_value, c_transaction_amount, c_volume>>

Reverse(s) == [i \in 1..Len(s) |-> s[Len(s) + 1 - i]]

\* Every header line made of some of the known names, each once, in one
\* spelling, in the order of KnownNames or the reverse.
Headers ==
    { IF backwards THEN Reverse(h) ELSE h :
        h \in { [i \in 1..Len(picked) |-> Spelled(picked[i], style)] :
                  picked \in { SelectSeq(KnownNames, LAMBDA n : n \in chosen) :
                                 chosen \in SUBSET Range(KnownNames) \ {{}} },
                  style \in Styles },
        backwards \in BOOLEAN }

\* Header lines whose rows are varied: a ledger and a single amount column.
LedgerHeader == <<Spelled(c_debit, "title"), Spelled(c_credit, "upper")>>

AmountHeader == <<Spelled(c_amount, "title")>>

\* Header lines where two columns carry the same name once normalised.
RepeatedHeaders ==
    { <<Spelled(c_amount, "title"), Spelled(c_amount, "plain")>>,
      <<Spelled(c_debit, "plain"), Spelled(c_debit, "upper"), Spelled(c_credit, "plain")>>,
      <<Spelled(c_value, "plain"), Spelled(c_value, "upper"), Spelled(c_amount, "plain")>> }

\* Cell values, in 1/256 units: 5.00, 4.00, 0.375, -0.00390625, -4.00.
AmountCells == {Num(1280), Num(96), Num(-1), Num(-1024), Text, Empty}

LedgerCells == {Num(1280), Num(1024), Text, Empty}

\* The rows a client may append to a file with header line h that holds n
\* rows: up to MaxRows rows of any cells under the two varied headers, and
\* one row of the same number in every column under the others.
RowChoices(h, n) ==
    IF h = LedgerHeader
    THEN IF n < MaxRows THEN [1..Len(h) -> LedgerCells] ELSE {}
    ELSE IF h = AmountHeader
    THEN IF n < MaxRows THEN [1..Len(h) -> AmountCells] ELSE {}
    ELSE IF n < 1 THEN { [i \in 1..Len(h) |-> Num(1280)] } ELSE {}

csv_name == <<"q","1">> \o dot_csv

xlsx_name == <<"q","1",".","x","l","s","x">>

shouted_name == <<"Q","1",".","C","S","V">>

FileOf(name, h, rows) == [filename |-> name, header |-> h, rows |-> rows]

\* The files before any row is written.
EmptyFiles ==
    { FileOf(csv_name, h, <<>>) :
        h \in Headers \cup RepeatedHeaders \cup {LedgerHeader, AmountHeader} }
    \cup { FileOf(name, LedgerHeader, <<>>) : name \in {xlsx_name, shouted_name} }

NoFile == FileOf(<<>>, <<>>, <<>>)

-----------------------------------------------------------------------------
(* The pipeline: a client uploads a file and hands each response on to the  *)
(* next stage unchanged.                                                    *)

NoExchange == [endpoint |-> "none", chained |-> FALSE, data |-> Nil, response |-> Nil]

Init ==
    /\ file \in EmptyFiles
    /\ handled = NotHandled
    /\ uploadOut = Nil
    /\ insightsOut = Nil
    /\ scoreOut = Nil
    /\ creditOut = Nil
    /\ productOut = Nil
    /\ call = NoExchange
    /\ prior = NoExchange

\* The response is the summary of a table of financial data.
IsSummary(r) == "dataset_type" \in DOMAIN r /\ r.dataset_type = "sme_financial"

\* The client writes one more row into the file it is about to upload.
WriteRow ==
    /\ uploadOut = Nil
    /\ \E row \in RowChoices(file.header, Len(file.rows)) :
          file' = [file EXCEPT !.rows = Append(@, row)]
    /\ UNCHANGED <<handled, uploadOut, insightsOut, scoreOut, creditOut, productOut, apiVars>>

UploadFile ==
    /\ uploadOut = Nil
    /\ uploadOut' = upload_file(file).response
    /\ handled' = upload_file(file).did
    /\ UNCHANGED <<file, insightsOut, scoreOut, creditOut, productOut, apiVars>>

\* The payload of /ai-insights and of /health-score: the upload's summary.
SummaryPayload ==
    [total_revenue |-> uploadOut.total_revenue,
     total_expense |-> uploadOut.total_expense,
     net_cashflow |-> uploadOut.net_cashflow,
     risk_flags |-> uploadOut.risk_flags]

AiInsights ==
    /\ IsSummary(uploadOut)
    /\ insightsOut = Nil
    /\ insightsOut' = ai_insights(SummaryPayload)
    /\ UNCHANGED <<file, handled, uploadOut, scoreOut, creditOut, productOut, apiVars>>

HealthScore ==
    /\ IsSummary(uploadOut)
    /\ scoreOut = Nil
    /\ scoreOut' = health_score(SummaryPayload)
    /\ UNCHANGED <<file, handled, uploadOut, insightsOut, creditOut, productOut, apiVars>>

CreditPayload ==
    [financial_health_score |-> scoreOut.financial_health_score,
     net_cashflow |-> uploadOut.net_cashflow,
     risk_flags |-> uploadOut.risk_flags]

Creditworthiness ==
    /\ scoreOut # Nil
    /\ creditOut = Nil
    /\ creditOut' = creditworthiness(CreditPayload)
    /\ UNCHANGED <<file, handled, uploadOut, insightsOut, scoreOut, productOut, apiVars>>

ProductPayload ==
    [credit_status |-> creditOut.credit_status,
     net_cashflow |-> uploadOut.net_cashflow,
     total_revenue |-> uploadOut.total_revenue,
     total_expense |-> uploadOut.total_expense]

ProductRecommendation ==
    /\ creditOut # Nil
    /\ productOut = Nil
    /\ productOut' = product_recommendation(ProductPayload)
    /\ UNCHANGED <<file, handled, uploadOut, insightsOut, scoreOut, creditOut, apiVars>>

Next ==
    \/ WriteRow
    \/ UploadFile
    \/ AiInsights
    \/ HealthScore
    \/ Creditworthiness
    \/ ProductRecommendation

Spec == Init /\ [][Next]_vars

-----------------------------------------------------------------------------
(* The handlers called on their own, with any payload.  `call` is the      *)
(* latest exchange and `prior` the one before it.                          *)

NegativeFlag == "Negative cash flow"

ExpenseFlag == "High expense ratio"

FlagLists == { <<>>, <<NegativeFlag>>, <<ExpenseFlag>>, <<ExpenseFlag, NegativeFlag>> }

\* Payloads of /health-score, in whole units: no revenue or a revenue of
\* 1000, expenses at and on both sides of 0.6 and 0.8 of it.
ScoreInputs ==
    [total_revenue : {0, 1000},
     total_expense : {0, 600, 601, 800, 900},
     net_cashflow : {-1, 0, 100},
     risk_flags : { <<>>, <<NegativeFlag>>, <<ExpenseFlag>> }]

InsightInputs ==
    [total_revenue : {1000},
     total_expense : {900},
     net_cashflow : {-1, 0, 100},
     risk_flags : FlagLists]

CreditInputs ==
    [financial_health_score : {0, 49, 50, 74, 75, 80, 100},
     net_cashflow : {-1, 0, 50},
     risk_flags : { <<>>, <<NegativeFlag>> }]

Statuses == {"Credit Ready", "Caution", "High Risk", "credit ready"}

\* Revenue and expense of a /product-recommendation payload.
Turnovers == { <<0, 0>>, <<1000, 900>>, <<1000, 0>> }

ProductInputs ==
    { [credit_status |-> status, net_cashflow |-> net,
       total_revenue |-> t[1], total_expense |-> t[2]] :
        status \in Statuses, net \in {-1, 0, 50}, t \in Turnovers }

Exchange(endpoint, chained, data, response) ==
    [endpoint |-> endpoint, chained |-> chained, data |-> data, response |-> response]

InitApi ==
    /\ file = NoFile
    /\ handled = NotHandled
    /\ uploadOut = Nil
    /\ insightsOut = Nil
    /\ scoreOut = Nil
    /\ creditOut = Nil
    /\ productOut = Nil
    /\ call = NoExchange
    /\ prior = NoExchange

CallAiInsights ==
    /\ \E data \in InsightInputs :
          call' = Exchange("ai-insights", FALSE, data, ai_insights(data))
    /\ prior' = call
    /\ UNCHANGED pipelineVars

CallHealthScore ==
    /\ \E data \in ScoreInputs :
          call' = Exchange("health-score", FALSE, data, health_score(data))
    /\ prior' = call
    /\ UNCHANGED pipelineVars

CallCreditworthiness ==
    /\ \E data \in CreditInputs :
          call' = Exchange("creditworthiness", FALSE, data, creditworthiness(data))
    /\ prior' = call
    /\ UNCHANGED pipelineVars

CallProductRecommendation ==
    /\ \E data \in ProductInputs :
          call' = Exchange("product-recommendation", FALSE, data, product_recommendation(data))
    /\ prior' = call
    /\ UNCHANGED pipelineVars

\* An orchestrator hands the credit status it just received, and the
\* net_cashflow it sent with it, to /product-recommendation.
ChainProductRecommendation ==
    /\ call.endpoint = "creditworthiness"
    /\ \E t \in Turnovers :
          LET data == [credit_status |-> call.response.credit_status,
                       net_cashflow |-> call.data.net_cashflow,
                       total_revenue |-> t[1],
                       total_expense |-> t[2]]
          IN  call' = Exchange("product-recommendation", TRUE, data, product_recommendation(data))
    /\ prior' = call
    /\ UNCHANGED pipelineVars

NextApi ==
    \/ CallAiInsights
    \/ CallHealthScore
    \/ CallCreditworthiness
    \/ CallProductRecommendation
    \/ ChainProductRecommendation

SpecApi == InitApi /\ [][NextApi]_vars

-----------------------------------------------------------------------------
(* What the specification expects of an upload, read off the file itself:  *)
(* a column is recognised by the spellings a name may take, a cell by its  *)
(* kind, independently of the handler's own normalisation and parsing.     *)

\* The spellings of every known name, and the name each spelling stands for.
SpellingsOf == [name \in Range(KnownNames) |-> { Spelled(name, style) : style \in Styles }]

NameSpelled ==
    [raw \in UNION { SpellingsOf[n] : n \in Range(KnownNames) } |->
        CHOOSE n \in Range(KnownNames) : raw \in SpellingsOf[n]]

\* Some column of the uploaded file spells the name.
Has(name) == \E i \in DOMAIN file.header : file.header[i] \in SpellingsOf[name]

\* The header line with every column under its case-folded, trimmed name.
ExpectedColumns == [i \in DOMAIN file.header |-> NameSpelled[file.header[i]]]

ExpectedKind ==
    IF Has(c_open) /\ Has(c_high) /\ Has(c_low) /\ Has(c_close) THEN "market_data"
    ELSE IF Has(c_debit) /\ Has(c_credit) THEN "ledger"
    ELSE IF Has(c_amount) \/ Has(c_value) \/ Has(c_transaction_amount) THEN "single_amount"
    ELSE "unsupported"

ExpectedAmountColumn ==
    IF Has(c_amount) THEN c_amount
    ELSE IF Has(c_value) THEN c_value
    ELSE c_transaction_amount

\* The upload was parsed as CSV and answered.
Answered == uploadOut # Nil /\ EndsWith(file.filename, dot_csv)

\* C1: the classification follows the priority MarketData > Ledger >
\* SingleAmount > Unsupported on the case-folded, trimmed column names alone:
\* with open, high, low and close present the answer is market_data whatever
\* else is present, it lists every column and carries no totals; otherwise
\* debit and credit together make a ledger; otherwise the amount column is
\* the first present of amount, value, transaction_amount; otherwise the
\* answer is unsupported with the full column list.
C1_ClassificationPriority ==
    Answered =>
        /\ handled.kind = ExpectedKind
        /\ ExpectedKind = "market_data" =>
              /\ uploadOut = [dataset_type |-> "market_data",
                              detected_columns |-> ExpectedColumns]
              /\ handled.amount = <<>>
        /\ ExpectedKind = "single_amount" => handled.amount_col = ExpectedAmountColumn
        /\ ExpectedKind = "unsupported" =>
              uploadOut = [dataset_type |-> "unsupported",
                           available_columns |-> ExpectedColumns]

\* C1 witness: a file spelling its columns in capitals with a leading space
\* holds open, high, low, close together with debit, credit and amount, and
\* was answered as market data.
C1_Witness ==
    /\ Answered
    /\ Has(c_open) /\ Has(c_high) /\ Has(c_low) /\ Has(c_close)
    /\ Has(c_debit) /\ Has(c_credit) /\ Has(c_amount)
    /\ file.header[1] = Spelled(c_amount, "upper")
    /\ file.rows # <<>>
    /\ uploadOut.dataset_type = "market_data"

CellValue(cell) == IF cell.kind = "num" THEN cell.val ELSE 0

ColumnOf(name) == CHOOSE i \in DOMAIN file.header : file.header[i] \in SpellingsOf[name]

ExpectedAmounts ==
    [r \in DOMAIN file.rows |->
        IF ExpectedKind = "ledger"
        THEN CellValue(file.rows[r][ColumnOf(c_credit)])
             - CellValue(file.rows[r][ColumnOf(c_debit)])
        ELSE CellValue(file.rows[r][ColumnOf(ExpectedAmountColumn)])]

RECURSIVE SumOver(_, _)
SumOver(f, S) ==
    IF S = {} THEN 0
    ELSE LET x == CHOOSE y \in S : TRUE IN f[x] + SumOver(f, S \ {x})

ExpectedRevenue ==
    SumOver(ExpectedAmounts, {r \in DOMAIN file.rows : ExpectedAmounts[r] > 0})

ExpectedExpense ==
    Abs(SumOver(ExpectedAmounts, {r \in DOMAIN file.rows : ExpectedAmounts[r] < 0}))

\* The response is the reference summary of the uploaded rows, the totals
\* rounded to cents.
IsReferenceSummary ==
    /\ IsSummary(uploadOut)
    /\ handled.amount = ExpectedAmounts
    /\ uploadOut.total_revenue = Round2(ExpectedRevenue)
    /\ uploadOut.total_expense = Round2(ExpectedExpense)
    /\ uploadOut.net_cashflow = Round2(ExpectedRevenue - ExpectedExpense)
    /\ Range(uploadOut.risk_flags) \subseteq {ExpenseFlag, NegativeFlag}
    /\ ExpenseFlag \in Range(uploadOut.risk_flags)
          <=> 10 * ExpectedExpense > 8 * ExpectedRevenue
    /\ NegativeFlag \in Range(uploadOut.risk_flags)
          <=> ExpectedRevenue - ExpectedExpense < 0
    /\ file.rows = <<>> =>
          /\ uploadOut.total_revenue = 0
          /\ uploadOut.total_expense = 0
          /\ uploadOut.net_cashflow = 0
          /\ uploadOut.risk_flags = <<>>

\* C2: for every ledger or single-amount table, zero rows included, the
\* upload never fails and answers the reference summary: amount is credit -
\* debit or the matched column's value, a cell that is no number counting
\* as 0; revenue is the sum of the positive amounts, expense the magnitude
\* of the sum of the negative ones; the two risk flags are decided
\* independently.
C2_SummaryNeverFails ==
    (Answered /\ ExpectedKind \in {"ledger", "single_amount"}) => IsReferenceSummary

\* No two columns of the file carry the same name once normalised.
DistinctNames ==
    \A i, j \in DOMAIN file.header :
        ExpectedColumns[i] = ExpectedColumns[j] => i = j

\* The part of C2 the code keeps: with distinct column names the upload
\* answers the reference summary.
SummaryOfDistinctNames ==
    (Answered /\ ExpectedKind \in {"ledger", "single_amount"} /\ DistinctNames)
        => IsReferenceSummary

\* C3: the three rounded values handed to the caller satisfy
\* total_revenue - total_expense = net_cashflow exactly.
C3_RoundedIdentity ==
    IsSummary(uploadOut) =>
        uploadOut.total_revenue - uploadOut.total_expense = uploadOut.net_cashflow

\* The identity before rounding, and what is left of it after: the values
\* returned are the roundings of an exact difference and disagree by at
\* most one cent.
IdentityWithinOneCent ==
    IsSummary(uploadOut) =>
        /\ uploadOut.net_cashflow
              = Round2(TotalRevenue(handled.amount) - TotalExpense(handled.amount))
        /\ Abs(uploadOut.total_revenue - uploadOut.total_expense
                 - uploadOut.net_cashflow) <= 1

\* C6: on the summary exactly as the upload returned it, the -40 for
\* net_cashflow < 0 and the -20 for the NegativeCashFlow flag fire together:
\* whenever the net cash flow of the table is negative both apply, and
\* neither applies without the other.
C6_DeductionsFireTogether ==
    scoreOut # Nil =>
        /\ (CashflowDeduction(SummaryPayload) = 40) <=> (FlagDeduction(SummaryPayload) = 20)
        /\ ExpectedRevenue - ExpectedExpense < 0 =>
              scoreOut.financial_health_score
                 = 100 - 40 - BandDeduction(SummaryPayload) - 20

\* The direction of C6 that holds: the -40 never fires without the -20.
CashflowDeductionImpliesFlag ==
    scoreOut # Nil =>
        (CashflowDeduction(SummaryPayload) = 40 => FlagDeduction(SummaryPayload) = 20)

NegativeSentence ==
    "Your business is facing negative cash flow. Immediate attention is required."

PositiveSentence ==
    "Your business is generating positive cash flow, which is a good sign."

\* C9: the narrative of an upload's summary holds the negative-cash-flow
\* sentence exactly when the summary's risk flags hold NegativeCashFlow, and
\* the positive-cash-flow sentence otherwise; a table with a net cash flow
\* of exactly 0 is not told it has negative cash flow.
C9_NarrativeAgreesWithFlags ==
    insightsOut # Nil =>
        LET text == Range(insightsOut.plain_english_summary)
            flagged == NegativeFlag \in Range(uploadOut.risk_flags)
        IN  /\ NegativeSentence \in text <=> flagged
            /\ PositiveSentence \in text <=> ~flagged

\* What the narrative does instead: the negative sentence whenever the
\* returned net_cashflow is not above 0.
NarrativeFollowsSign ==
    insightsOut # Nil =>
        LET text == Range(insightsOut.plain_english_summary)
        IN  /\ NegativeSentence \in text <=> uploadOut.net_cashflow <= 0
            /\ PositiveSentence \in text <=> uploadOut.net_cashflow > 0

-----------------------------------------------------------------------------
(* The handlers called on their own.                                       *)

Max(a, b) == IF a >= b THEN a ELSE b

IsCall(x, endpoint) == x.endpoint = endpoint

\* The band of a payload's expense ratio: 2 above 0.8, 1 above 0.6 up to
\* 0.8, 0 otherwise; the ratio is 0 without a positive revenue.
BandOf(d) ==
    IF d.total_revenue > 0 /\ 10 * d.total_expense > 8 * d.total_revenue THEN 2
    ELSE IF d.total_revenue > 0 /\ 10 * d.total_expense > 6 * d.total_revenue THEN 1
    ELSE 0

ExpectedScore(d) ==
    Max(0, 100 - (IF d.net_cashflow < 0 THEN 40 ELSE 0)
               - (CASE BandOf(d) = 2 -> 30 [] BandOf(d) = 1 -> 15 [] OTHER -> 0)
               - (IF NegativeFlag \in Range(d.risk_flags) THEN 20 ELSE 0))

\* C4: the score is max(0, 100 - 40 [net_cashflow < 0] - band - 20
\* [NegativeCashFlow flagged]), band 30 above a ratio of 0.8, else 15 above
\* 0.6, else 0; the label is Healthy from 80, Moderate from 50, else At
\* Risk; revenue 1000, expense 900, net 100 and no flag give 70, Moderate.
C4_ScoreFormula ==
    IsCall(call, "health-score") =>
        LET score == call.response.financial_health_score
        IN  /\ score = ExpectedScore(call.data)
            /\ score >= 80 => call.response.status = "Healthy"
            /\ (50 <= score /\ score < 80) => call.response.status = "Moderate"
            /\ score < 50 => call.response.status = "At Risk"
            /\ call.data = [total_revenue |-> 1000, total_expense |-> 900,
                            net_cashflow |-> 100, risk_flags |-> <<>>]
                  => call.response = [financial_health_score |-> 70, status |-> "Moderate"]

\* C4 witness: the scenario of the specification was scored 70, Moderate.
C4_Witness ==
    /\ IsCall(call, "health-score")
    /\ call.data = [total_revenue |-> 1000, total_expense |-> 900,
                    net_cashflow |-> 100, risk_flags |-> <<>>]
    /\ call.response = [financial_health_score |-> 70, status |-> "Moderate"]

\* The expense ratio of payload a is at most that of payload b.
RatioAtMost(a, b) ==
    LET ra == ExpenseRatio(a)
        rb == ExpenseRatio(b)
    IN  ra.num * rb.den <= rb.num * ra.den

\* C5: the score is an integer of 0..100; of two payloads with the same
\* net_cashflow and risk flags the one with the larger expense ratio never
\* scores higher, the score stepping only at 0.6 and 0.8; of two payloads
\* with the same expense ratio and risk flags the one with net_cashflow < 0
\* never scores higher than the one with net_cashflow >= 0.
C5_ScoreBoundedAndMonotone ==
    /\ IsCall(call, "health-score") => call.response.financial_health_score \in 0..100
    /\ (IsCall(prior, "health-score") /\ IsCall(call, "health-score")) =>
          LET a == prior.data
              b == call.data
              sa == prior.response.financial_health_score
              sb == call.response.financial_health_score
              sameFlags == a.risk_flags = b.risk_flags
          IN  /\ (sameFlags /\ a.net_cashflow = b.net_cashflow /\ RatioAtMost(a, b))
                    => sb <= sa
              /\ (sameFlags /\ a.net_cashflow = b.net_cashflow /\ BandOf(a) = BandOf(b))
                    => sb = sa
              /\ (sameFlags /\ RatioAtMost(a, b) /\ RatioAtMost(b, a)
                    /\ a.net_cashflow >= 0 /\ b.net_cashflow < 0)
                    => sb <= sa

\* C5 witness: two payloads equal but for the expense, 0.8 and then 0.9 of
\* the revenue, the second scored 15 lower.
C5_Witness ==
    /\ IsCall(prior, "health-score") /\ IsCall(call, "health-score")
    /\ prior.data.risk_flags = call.data.risk_flags
    /\ prior.data.net_cashflow = call.data.net_cashflow
    /\ prior.data.total_revenue = 1000 /\ call.data.total_revenue = 1000
    /\ prior.data.total_expense = 800 /\ call.data.total_expense = 900
    /\ call.response.financial_health_score
          = prior.response.financial_health_score - 15

ExpectedStatus(score, net) ==
    IF score >= 75 /\ net > 0 THEN "Credit Ready"
    ELSE IF score >= 50 THEN "Caution"
    ELSE "High Risk"

\* C7: the status is Credit Ready exactly when score >= 75 and net_cashflow
\* > 0, otherwise Caution exactly when score >= 50 (so score >= 75 with
\* net_cashflow <= 0 is Caution), otherwise High Risk; one status is
\* returned and the risk flags of the payload never change it.
C7_CreditThresholds ==
    /\ IsCall(call, "creditworthiness") =>
          LET score == call.data.financial_health_score
              net == call.data.net_cashflow
              status == call.response.credit_status
          IN  /\ status \in {"Credit Ready", "Caution", "High Risk"}
              /\ status = "Credit Ready" <=> (score >= 75 /\ net > 0)
              /\ status = "Caution" <=> (score >= 50 /\ ~(score >= 75 /\ net > 0))
              /\ status = "High Risk" <=> score < 50
              /\ status = ExpectedStatus(score, net)
    /\ (IsCall(prior, "creditworthiness") /\ IsCall(call, "creditworthiness")
          /\ prior.data.financial_health_score = call.data.financial_health_score
          /\ prior.data.net_cashflow = call.data.net_cashflow)
          => prior.response = call.response

\* C7 witness: a score of at least 75 with no positive cash flow got
\* Caution, twice, under different risk flags.
C7_Witness ==
    /\ IsCall(prior, "creditworthiness") /\ IsCall(call, "creditworthiness")
    /\ call.data.financial_health_score >= 75
    /\ call.data.net_cashflow <= 0
    /\ prior.data.financial_health_score = call.data.financial_health_score
    /\ prior.data.net_cashflow = call.data.net_cashflow
    /\ prior.data.risk_flags # call.data.risk_flags
    /\ call.response.credit_status = "Caution"

Advisory ==
    "Not eligible for credit currently. Focus on improving cash flow and reducing expenses."

ExpectedProducts(status, net) ==
    IF status = "Credit Ready" /\ net > 0
    THEN <<"Working Capital Loan", "Business Credit Card">>
    ELSE IF status = "Credit Ready" THEN <<"Invoice Discounting">>
    ELSE IF status = "Caution" THEN <<"Overdraft Facility">>
    ELSE <<Advisory>>

\* C8: the list depends on credit_status and on whether net_cashflow > 0
\* only: Working Capital Loan then Business Credit Card for Credit Ready
\* with net_cashflow > 0, Invoice Discounting for Credit Ready otherwise,
\* Overdraft Facility for Caution, one advisory string for any other status;
\* two calls that differ only in total_revenue and total_expense return the
\* same list.
C8_ProductsIgnoreTurnover ==
    /\ IsCall(call, "product-recommendation") =>
          call.response.recommended_products
             = ExpectedProducts(call.data.credit_status, call.data.net_cashflow)
    /\ (IsCall(prior, "product-recommendation") /\ IsCall(call, "product-recommendation")
          /\ prior.data.credit_status = call.data.credit_status
          /\ prior.data.net_cashflow = call.data.net_cashflow)
          => prior.response.recommended_products = call.response.recommended_products

\* C8 witness: two Credit Ready payloads with the same positive net_cashflow,
\* one with an expense ratio of 0.9 and one with no expense, got the same
\* two products.
C8_Witness ==
    /\ IsCall(prior, "product-recommendation") /\ IsCall(call, "product-recommendation")
    /\ prior.data.credit_status = "Credit Ready" /\ call.data.credit_status = "Credit Ready"
    /\ prior.data.net_cashflow = 50 /\ call.data.net_cashflow = 50
    /\ prior.data.total_expense = 900 /\ call.data.total_expense = 0
    /\ call.response.recommended_products = <<"Working Capital Loan", "Business Credit Card">>

\* C10: when the credit status and the net_cashflow sent to the classifier
\* are handed on unchanged to the recommender, Credit Ready always yields
\* Working Capital Loan then Business Credit Card and Invoice Discounting is
\* never returned.
C10_InvoiceDiscountingUnreachable ==
    (IsCall(call, "product-recommendation") /\ call.chained) =>
        /\ call.response.recommended_products # <<"Invoice Discounting">>
        /\ call.data.credit_status = "Credit Ready" =>
              call.response.recommended_products
                 = <<"Working Capital Loan", "Business Credit Card">>

\* C10 witness: a classifier answer of Credit Ready was handed on and got
\* the two products.
C10_Witness ==
    /\ IsCall(call, "product-recommendation") /\ call.chained
    /\ IsCall(prior, "creditworthiness")
    /\ prior.response.credit_status = "Credit Ready"
    /\ call.data.credit_status = "Credit Ready"
    /\ call.data.net_cashflow = prior.data.net_cashflow
    /\ call.response.recommended_products = <<"Working Capital Loan", "Business Credit Card">>

=============================================================================
